---- MODULE Spec2Model ----
(***************************************************************************)
(* Model of the data-masking and group-outlier-detection code of the      *)
(* borehole heat exchanger (BHE) field repository:                        *)
(*   helpers/load.py     create_BHE_data_mask, MASKING_TIMES, and the     *)
(*                       monthly loop of load_data                        *)
(*   helpers/load2.py    create_nan_mask (the factored-out gap detector)  *)
(*                       and its copy of create_BHE_data_mask             *)
(*   helpers/analyse.py  get_vault_outliers_median_filter, get_ID_strings *)
(*                                                                         *)
(* Conventions.                                                            *)
(*  - A numpy array is a TLA+ sequence; Python index i is position i + 1.  *)
(*  - A float sample is an "optional": NaN is << >>, the number v is <<v>>.*)
(*    Every comparison with NaN is false, as in IEEE 754.                  *)
(*  - Flow rates are integers in tenths of the flow unit (0.5 is 5);       *)
(*    transit times are integers in hundredths of a second (745.26 s is   *)
(*    74526); temperatures are integers in a fixed unit and medians and    *)
(*    misfits are kept as exact fractions.                                 *)
(***************************************************************************)
EXTENDS Integers, Sequences, FiniteSets, TLC

VARIABLES
    pc,          \* "input" while the caller builds the arguments, "done" after the call
    data,        \* the three columns of the addressed device: T_in, T_out, V_dot
    runs,        \* number of constant runs appended to the columns so far
    BHE,         \* the device identifier passed to create_BHE_data_mask
    timestep,    \* the sampling interval passed to create_BHE_data_mask (seconds)
    result,      \* what create_BHE_data_mask returned or raised
    result2,     \* what the copy of create_BHE_data_mask in load2.py returned
                 \* or raised for the same arguments
    locals,      \* nsteps, nan_starts and nan_ends as the call computed them
    table,       \* the DataFrame passed to get_vault_outliers_median_filter
    threshold,   \* its threshold argument
    masked_BHEs, \* its masked_BHEs argument
    report,      \* what get_vault_outliers_median_filter returned or raised
    calls,       \* the calls made to the topology lookup, with what they returned
    shafts,      \* the west, south and east list objects built by the last lookup
    pipeline,    \* the shared table of the masking loop: as loaded, as it is
                 \* now, and the devices the loop has handled
    loader       \* the monthly loop of load_data: its date arguments, its
                 \* cursor time_start and the monthly files read so far

maskVars == <<data, runs, BHE, timestep, result, result2, locals>>
outlierVars == <<table, threshold, masked_BHEs, report>>
lookupVars == <<calls, shafts>>
vars == <<pc, data, runs, BHE, timestep, result, result2, locals,
          table, threshold, masked_BHEs, report, calls, shafts, pipeline, loader>>

-----------------------------------------------------------------------------
(* Bounds of the model *)

MaxRuns == 3
MaxLen == 45
\* rows of the table given to the outlier detector, and its non-missing cells
MaxRows == 2
MaxCells == 3
\* calls made to the topology lookup in one behaviour
MaxCalls == 3
\* the sampling intervals 1..MaxInterval s are tried for every device
MaxInterval == 60
\* flow samples of a device of the shared table that follow its first 21
PipelineRows == 2
\* how far the gap start and the series tail of the device "07" scenario vary
ScenarioSlack == 5
\* runs of samples appended to a device's columns in the temperature scenario
TempRuns == 2
\* calendar months, from December 2019 on, that the dates given to load_data
\* are drawn from
LoaderMonths == 4

-----------------------------------------------------------------------------
(* Floats *)

NaN == << >>
Num(v) == <<v>>
isnan(x) == x = NaN
\* x < c for a float x and a number c; False when x is NaN
FloatLt(x, c) == IF isnan(x) THEN FALSE ELSE x[1] < c

-----------------------------------------------------------------------------
(* numpy helpers *)

Min(a, b) == IF a <= b THEN a ELSE b
Max(a, b) == IF a >= b THEN a ELSE b

\* np.zeros_like(a, dtype=bool)
zeros_like(a) == [j \in 1..Len(a) |-> FALSE]

\* whether Python index i lies in the slice a[s:e] of an array of length n,
\* for 0 <= s: a slice that runs past the end is clipped
InSlice(i, s, e, n) == s <= i /\ i < e /\ i < n

\* np.diff(c)
diff(c) == [k \in 1..(Len(c) - 1) |-> c[k + 1] - c[k]]

\* the Python indices i in lo-1..hi-1 with d[i] == v, ascending (the range is
\* halved so that the evaluation depth stays logarithmic)
RECURSIVE WhereIn(_, _, _, _)
WhereIn(d, v, lo, hi) ==
    IF lo > hi THEN << >>
    ELSE IF lo = hi THEN (IF d[lo] = v THEN <<lo - 1>> ELSE << >>)
    ELSE LET mid == (lo + hi) \div 2
         IN  WhereIn(d, v, lo, mid) \o WhereIn(d, v, mid + 1, hi)

\* np.where(d == v)[0]: the Python indices of the entries equal to v, ascending
where(d, v) == WhereIn(d, v, 1, Len(d))

\* zip(a, b)
zip(a, b) == [k \in 1..Min(Len(a), Len(b)) |-> <<a[k], b[k]>>]

-----------------------------------------------------------------------------
(* Device identifiers and the transit-time table *)

Digit == <<"0", "1", "2", "3", "4", "5", "6", "7", "8", "9">>

RECURSIVE DecStr(_)
DecStr(n) == IF n < 10 THEN Digit[n + 1] ELSE DecStr(n \div 10) \o Digit[(n % 10) + 1]

\* f'{n:02d}' for n >= 0
Format02d(n) == IF n < 10 THEN "0" \o DecStr(n) ELSE DecStr(n)

\* a device identifier as the caller passes it: an int or a str
IntId(n) == [kind |-> "int", num |-> n, str |-> ""]
StrId(s) == [kind |-> "str", num |-> 0, str |-> s]

\* time to mask after a no-flow or data-gap period, in hundredths of a second
MASKING_TIMES ==
    [s \in {Format02d(n) : n \in 1..40} |->
        CASE s = "01" -> 62536 [] s = "02" -> 59324 [] s = "03" -> 58596
          [] s = "04" -> 62664 [] s = "05" -> 66818 [] s = "06" -> 70672
          [] s = "07" -> 74526 [] s = "08" -> 56754 [] s = "09" -> 59324
          [] s = "10" -> 64034 [] s = "11" -> 67246 [] s = "12" -> 63820
          [] s = "13" -> 80736 [] s = "14" -> 72385 [] s = "15" -> 68317
          [] s = "16" -> 64248 [] s = "17" -> 60180 [] s = "18" -> 56326
          [] s = "19" -> 56326 [] s = "20" -> 60394 [] s = "21" -> 64248
          [] s = "22" -> 68531 [] s = "23" -> 69387 [] s = "24" -> 72171
          [] s = "25" -> 65105 [] s = "26" -> 61679 [] s = "27" -> 65105
          [] s = "28" -> 59752 [] s = "29" -> 63178 [] s = "30" -> 57825
          [] s = "31" -> 61893 [] s = "32" -> 56326 [] s = "33" -> 57397
          [] s = "34" -> 61465 [] s = "35" -> 62964 [] s = "36" -> 65533
          [] s = "37" -> 61465 [] s = "38" -> 64891 [] s = "39" -> 70886
          [] s = "40" -> 74740]

\* if isinstance(BHE, int): BHE = f'{BHE:02d}'
NormalizeBHE(b) == IF b.kind = "int" THEN Format02d(b.num) ELSE b.str

\* a conversion that rounds down
CeilSteps_floor(time_to_mask, ts) == time_to_mask \div (ts * 100)

\* -(-time_to_mask // timestep): floor division, negated twice
\* (time_to_mask is in hundredths of a second, timestep in seconds)
CeilSteps(time_to_mask, ts) == -((-time_to_mask) \div (ts * 100))

-----------------------------------------------------------------------------
(* Gap-run detection (load.py lines 132-140, load2.py create_nan_mask) *)

min_gap_size == 20

\* np.isnan(series) as 0/1
isnan_int(series) == [k \in 1..Len(series) |-> IF isnan(series[k]) THEN 1 ELSE 0]

\* mutant: the indicator is not bracketed by the two zeros
nan_diff_unbracketed(series) == diff(isnan_int(series))

\* nan_diff = np.diff(np.concatenate(([0], np.isnan(series), [0])))
nan_diff(series) == diff(<<0>> \o isnan_int(series) \o <<0>>)

nan_starts(series) == where(nan_diff(series), 1)
nan_ends(series) == where(nan_diff(series), -1)

\* the (start, end) pairs the for loop iterates over
nan_runs(series) == zip(nan_starts(series), nan_ends(series))

\* for start, end in zip(nan_starts, nan_ends):
\*     if end - start > gap: mask_nan[start:min(end + nsteps, len(series))] = True
\* on a fresh all-False mask.  The loop only ever sets entries to True, so an
\* entry is True afterwards iff one of the iterations covers it.
NanMask(series, gap, nsteps) ==
    LET pairs == nan_runs(series)
        n == Len(series)
    IN  [j \in 1..n |->
            \E k \in 1..Len(pairs) :
                LET start == pairs[k][1]
                    end == pairs[k][2]
                IN  /\ end - start > gap
                    /\ InSlice(j - 1, start, Min(end + nsteps, n), n)]

\* mutant: a run must exceed the minimum gap size by two samples
create_nan_mask_late(series, gap, nsteps) ==
    NanMask(series, gap + 1, nsteps)

\* mutant: end - start >= min_gap_size
create_nan_mask_ge(series, gap, nsteps) ==
    NanMask(series, gap - 1, nsteps)

\* mutant: the run itself is marked, mask_nan[start:end], without the next
\* nsteps positions
create_nan_mask_run_only(series, gap, nsteps) ==
    NanMask(series, gap, 0)

\* for start, end in zip(nan_starts, nan_ends): if end - start > min_gap_size: ...
create_nan_mask(series, gap, nsteps) ==
    NanMask(series, gap, nsteps)

-----------------------------------------------------------------------------
(* create_BHE_data_mask (load.py) *)

\* the low-flow threshold 0.5, in tenths
LowFlow == 5

\* mask_volflow = V_dot < 0.5
mask_volflow(V_dot) == [k \in 1..Len(V_dot) |-> FloatLt(V_dot[k], LowFlow)]

\* combined_mask = mask_nan_volflow | mask_volflow
combined_mask(V_dot, nsteps) ==
    LET mn == create_nan_mask(V_dot, min_gap_size, nsteps)
        mv == mask_volflow(V_dot)
    IN  [k \in 1..Len(V_dot) |-> mn[k] \/ mv[k]]

\* a loop that opens a window only at the first index of each run of
\* consecutive indices
ExtendLoop_run_starts(mask0, ixs, nsteps) ==
    [j \in 1..Len(mask0) |->
        \/ mask0[j]
        \/ \E k \in 1..Len(ixs) :
              /\ k = 1 \/ ixs[k - 1] # ixs[k] - 1
              /\ InSlice(j - 1, ixs[k], ixs[k] + nsteps + 1, Len(mask0))]

\* for idx in indices: mask[idx:idx + nsteps + 1] = True
\* The loop only ever sets entries to True, so an entry is True afterwards iff
\* it was True before or one of the iterations covers it.
ExtendLoop(mask0, ixs, nsteps) ==
    [j \in 1..Len(mask0) |->
        \/ mask0[j]
        \/ \E k \in 1..Len(ixs) :
              InSlice(j - 1, ixs[k], ixs[k] + nsteps + 1, Len(mask0))]

\* mutant: mask[idx:idx + nsteps] = True
MaskBody_short(d, nsteps) ==
    LET mask == zeros_like(d.T_in)
        indices == where(combined_mask(d.V_dot, nsteps), TRUE)
        extended == ExtendLoop(mask, indices, nsteps - 1)
    IN  SubSeq(extended, 1, Min(Len(extended), Len(d.T_in)))

\* mutant: the mask is allocated with room for the last look-ahead window
\* and returned without the final mask[:len(T_in)]
MaskBody_untrimmed(d, nsteps) ==
    LET mask == [j \in 1..(Len(d.T_in) + nsteps + 1) |-> FALSE]
        indices == where(combined_mask(d.V_dot, nsteps), TRUE)
    IN  ExtendLoop(mask, indices, nsteps)

\* mutant: a single look-ahead; the windows open at the low-flow samples only
\* and the widened gap runs are added as they are
MaskBody_single(d, nsteps) ==
    LET mask == create_nan_mask(d.V_dot, min_gap_size, nsteps)
        indices == where(mask_volflow(d.V_dot), TRUE)
        extended == ExtendLoop(mask, indices, nsteps)
    IN  SubSeq(extended, 1, Min(Len(extended), Len(d.T_in)))

\* mutant: a missing inlet temperature opens a window as well
MaskBody_temperature(d, nsteps) ==
    LET mask == zeros_like(d.T_in)
        combined == combined_mask(d.V_dot, nsteps)
        indices == where([k \in 1..Len(d.V_dot) |->
                             combined[k] \/ isnan(d.T_in[k])], TRUE)
        extended == ExtendLoop(mask, indices, nsteps)
    IN  SubSeq(extended, 1, Min(Len(extended), Len(d.T_in)))

\* for idx in indices: mask[idx:idx + nsteps + 1] = True; return mask[:len(T_in)]
MaskBody(d, nsteps) ==
    LET mask == zeros_like(d.T_in)
        indices == where(combined_mask(d.V_dot, nsteps), TRUE)
        extended == ExtendLoop(mask, indices, nsteps)
    IN  SubSeq(extended, 1, Min(Len(extended), Len(d.T_in)))

\* time_to_mask = MASKING_TIMES.get(BHE): None when the device has no entry,
\* and -None raises TypeError
create_BHE_data_mask(d, b, ts) ==
    LET id == NormalizeBHE(b)
    IN  IF id \notin DOMAIN MASKING_TIMES
            THEN [status |-> "TypeError", mask |-> << >>]
            ELSE [status |-> "ok",
                  mask |-> MaskBody(d, CeilSteps(MASKING_TIMES[id], ts))]

-----------------------------------------------------------------------------
(* create_BHE_data_mask and create_nan_mask of load2.py.  A Python number  *)
(* is kept with its type, because a numpy slice bound must be an integer:  *)
(* a float bound raises TypeError, also when its value is whole.           *)

PyInt(v) == [type |-> "int", val |-> v]
PyFloat(v) == [type |-> "float", val |-> v]

\* a + b for an integer a: the sum is a float when b is
PyAdd(a, b) == [type |-> b.type, val |-> a + b.val]

\* min(a, n) for an integer n: Python returns the first argument unless the
\* second is smaller
PyMin(a, n) == IF n < a.val THEN PyInt(n) ELSE a

\* time_to_mask = MASKING_TIMES.get(BHE, 0)
\* nsteps = -(-time_to_mask // timestep)
\* The entries of the table are floats, so nsteps is a float; the default 0
\* is an int.
load2_nsteps(id, ts) ==
    IF id \in DOMAIN MASKING_TIMES
        THEN PyFloat(CeilSteps(MASKING_TIMES[id], ts))
        ELSE PyInt(0)

\* for start, end in zip(nan_starts, nan_ends):
\*     if end - start > min_gap_size:
\*         mask_nan[start:min(end + nsteps, len(series))] = True
\* The slice raises TypeError when its upper bound is a float.
load2_create_nan_mask(series, gap, nsteps) ==
    LET pairs == nan_runs(series)
        n == Len(series)
    IN  IF \E k \in 1..Len(pairs) :
              /\ pairs[k][2] - pairs[k][1] > gap
              /\ PyMin(PyAdd(pairs[k][2], nsteps), n).type = "float"
            THEN [status |-> "TypeError", mask |-> << >>]
            ELSE [status |-> "ok", mask |-> NanMask(series, gap, nsteps.val)]

\* mask_nan_volflow = create_nan_mask(V_dot_series, min_gap_size, nsteps)
\* combined_mask = mask_nan_volflow | mask_volflow
\* for idx in indices: mask[idx:idx + nsteps + 1] = True
\* return mask[:len(T_in_series)]
\* The slice of the loop raises TypeError when idx + nsteps + 1 is a float.
load2_create_BHE_data_mask(d, b, ts) ==
    LET id == NormalizeBHE(b)
        nsteps == load2_nsteps(id, ts)
        mn == load2_create_nan_mask(d.V_dot, min_gap_size, nsteps)
        mv == mask_volflow(d.V_dot)
    IN  IF mn.status # "ok" THEN mn
        ELSE LET combined == [k \in 1..Len(d.V_dot) |-> mn.mask[k] \/ mv[k]]
                 indices == where(combined, TRUE)
                 extended == ExtendLoop(zeros_like(d.T_in), indices, nsteps.val)
             IN  IF Len(indices) > 0 /\ PyAdd(indices[1], nsteps).type = "float"
                     THEN [status |-> "TypeError", mask |-> << >>]
                     ELSE [status |-> "ok",
                           mask |-> SubSeq(extended, 1,
                                           Min(Len(extended), Len(d.T_in)))]

-----------------------------------------------------------------------------
(* Inputs *)

\* flow samples in tenths: 0.4 (low flow), 0.5 (the threshold itself), 0.6
FlowKinds == {NaN, Num(4), Num(5), Num(6)}
RunLens == {1, min_gap_size, min_gap_size + 1}
\* an inlet/outlet temperature sample
TempSample == Num(100)

Devices == {StrId("07"), IntId(18), StrId("41")}
Timesteps == {30, 300}

Const(v, n) == [k \in 1..n |-> v]

NoResult == [status |-> "none", mask |-> << >>]
NoLocals == [nsteps |-> -1, nan_starts |-> << >>, nan_ends |-> << >>]

\* nsteps, nan_starts and nan_ends of a call, which line 120 may abort before
\* they exist
CallLocals(d, b, ts) ==
    IF NormalizeBHE(b) \notin DOMAIN MASKING_TIMES
        THEN NoLocals
        ELSE [nsteps |-> CeilSteps(MASKING_TIMES[NormalizeBHE(b)], ts),
              nan_starts |-> nan_starts(d.V_dot), nan_ends |-> nan_ends(d.V_dot)]

-----------------------------------------------------------------------------
(* Topology lookup (analyse.py) *)

west_ids == <<1, 2, 3, 4, 5, 6, 7, 8, 9, 10, 11, 12>>
\* a south shaft made of the twelve devices that follow the west shaft
south_ids_contiguous == <<13, 14, 15, 16, 17, 18, 19, 20, 21, 22, 23, 24>>
south_ids == <<13, 14, 15, 16, 17, 18, 19, 20, 21, 22, 24, 25>>
east_ids == <<23, 26, 27, 28, 29, 30, 31, 32, 33, 34, 35, 36, 37, 38, 39, 40>>

\* f'{before}{x:02}{after}'
IdString(before, x, after) == before \o Format02d(x) \o after

\* generate_ID_strings_per_shaft(before='Probe_', after): west, south, east
generate_ID_strings_per_shaft(before, after) ==
    [west |-> [k \in 1..Len(west_ids) |-> IdString(before, west_ids[k], after)],
     south |-> [k \in 1..Len(south_ids) |-> IdString(before, south_ids[k], after)],
     east |-> [k \in 1..Len(east_ids) |-> IdString(before, east_ids[k], after)]]

\* x in lst
InList(x, lst) == \E k \in 1..Len(lst) : lst[k] = x

\* lst.remove(x) for x in lst: drops the first occurrence
ListRemove(lst, x) ==
    LET first == CHOOSE k \in 1..Len(lst) :
                    lst[k] = x /\ \A h \in 1..(k - 1) : lst[h] # x
    IN  SubSeq(lst, 1, first - 1) \o SubSeq(lst, first + 1, Len(lst))

\* one iteration of "for masked in masked_BHEs": if / elif / elif
RemoveMasked(g, masked) ==
    IF InList(masked, g.west) THEN [g EXCEPT !.west = ListRemove(g.west, masked)]
    ELSE IF InList(masked, g.south) THEN [g EXCEPT !.south = ListRemove(g.south, masked)]
    ELSE IF InList(masked, g.east) THEN [g EXCEPT !.east = ListRemove(g.east, masked)]
    ELSE g

\* a loop that returns after its first iteration
RemoveAll_first(g, lst, k) ==
    IF k > Len(lst) THEN g ELSE RemoveMasked(g, lst[k])

RECURSIVE RemoveAll(_, _, _)
RemoveAll(g, lst, k) ==
    IF k > Len(lst) THEN g ELSE RemoveAll(RemoveMasked(g, lst[k]), lst, k + 1)

\* the masked_BHEs argument: None or a list of column names
None == [given |-> FALSE, list |-> << >>]
List(l) == [given |-> TRUE, list |-> l]

\* the body of get_ID_strings after line 116, on the lists g that line built:
\* "if masked_BHEs is not None: for masked in masked_BHEs: ..."
remove_masked_BHEs(g, masked) ==
    IF masked.given THEN RemoveAll(g, masked.list, 1) ELSE g

\* get_ID_strings(after, masked_BHEs)
get_ID_strings(after, masked) ==
    remove_masked_BHEs(generate_ID_strings_per_shaft("Probe_", after), masked)

\* the masked_BHEs list object after get_ID_strings has iterated over it:
\* the loop only reads it
masked_after_loop(masked) == masked

\* ERC_Management.__init__ (plot.py): the same three lists, held per instance
ERC_Management ==
    [west_ids |-> <<1, 2, 3, 4, 5, 6, 7, 8, 9, 10, 11, 12>>,
     south_ids |-> <<13, 14, 15, 16, 17, 18, 19, 20, 21, 22, 24, 25>>,
     east_ids |-> <<23, 26, 27, 28, 29, 30, 31, 32, 33, 34, 35, 36, 37, 38, 39, 40>>]

\* ERC_Management.generate_vault_id_strings(probe_strings=True, before, after)
generate_vault_id_strings(before, after) ==
    [west |-> [k \in 1..Len(ERC_Management.west_ids) |->
                  IdString(before, ERC_Management.west_ids[k], after)],
     south |-> [k \in 1..Len(ERC_Management.south_ids) |->
                  IdString(before, ERC_Management.south_ids[k], after)],
     east |-> [k \in 1..Len(ERC_Management.east_ids) |->
                  IdString(before, ERC_Management.east_ids[k], after)]]

\* lists that are kept between calls: a call with the prefix and suffix of
\* the previous call works on the lists that call left behind
new_lists_kept(prev, before, after) ==
    IF prev.before = before /\ prev.after = after
        THEN [west |-> prev.west, south |-> prev.south, east |-> prev.east]
        ELSE generate_ID_strings_per_shaft(before, after)

\* the list objects a call of generate_ID_strings_per_shaft works on: the
\* list comprehensions of lines 93-95 build new lists in every call, whatever
\* lists an earlier call built (prev) and changed
new_lists(prev, before, after) == generate_ID_strings_per_shaft(before, after)

-----------------------------------------------------------------------------
(* get_vault_outliers_median_filter (analyse.py)                           *)
(* A temperature is an integer in a fixed unit.  A median is kept as twice *)
(* its value (the mean of two integers is a half-integer) and a misfit as  *)
(* the fraction num / den, so that all arithmetic is exact.                *)

\* the number of rows of the DataFrame
Rows(tbl) == Len(tbl["Probe_01_T_in"])

IsNum(x) == ~isnan(x)

RECURSIVE SortInts(_)
\* the values of a sequence of integers in ascending order (insertion sort)
SortInts(q) ==
    IF Len(q) = 0 THEN << >>
    ELSE LET rest == SortInts(Tail(q))
             x == Head(q)
             k == Cardinality({h \in 1..Len(rest) : rest[h] < x})
         IN  SubSeq(rest, 1, k) \o <<x>> \o SubSeq(rest, k + 1, Len(rest))

\* a median that takes the upper of the two middle values of an even count
nanmedian_at_upper(tbl, members, t) ==
    LET column == [k \in 1..Len(members) |-> tbl[members[k]][t]]
        present == SelectSeq(column, IsNum)
        sorted == SortInts([k \in 1..Len(present) |-> present[k][1]])
        n == Len(sorted)
    IN  IF n = 0 THEN NaN
        ELSE Num(2 * sorted[(n \div 2) + 1])

\* np.nanmedian of one column of data[members].values.T, as twice the median:
\* NaN entries are dropped; an empty or all-NaN slice gives NaN
nanmedian_at(tbl, members, t) ==
    LET column == [k \in 1..Len(members) |-> tbl[members[k]][t]]
        present == SelectSeq(column, IsNum)
        sorted == SortInts([k \in 1..Len(present) |-> present[k][1]])
        n == Len(sorted)
    IN  IF n = 0 THEN NaN
        ELSE IF n % 2 = 1 THEN Num(2 * sorted[(n + 1) \div 2])
        ELSE Num(sorted[n \div 2] + sorted[(n \div 2) + 1])

\* np.nanmedian(data[members].values.T, axis=0)
nanmedian(tbl, members) == [t \in 1..Rows(tbl) |-> nanmedian_at(tbl, members, t)]

Abs(x) == IF x < 0 THEN -x ELSE x

RECURSIVE SumAbsDiff_raw(_, _, _, _)
\* a sum that compares the doubled median with the undoubled value
SumAbsDiff_raw(med, series, keep, t) ==
    IF t > Len(keep) THEN 0
    ELSE (IF keep[t] THEN Abs(med[t][1] - series[t][1]) ELSE 0)
         + SumAbsDiff_raw(med, series, keep, t + 1)

RECURSIVE SumAbsDiff(_, _, _, _)
\* the sum over the rows t..Len(keep) with keep[t] of |median - value|, doubled
SumAbsDiff(med, series, keep, t) ==
    IF t > Len(keep) THEN 0
    ELSE (IF keep[t] THEN Abs(med[t][1] - 2 * series[t][1]) ELSE 0)
         + SumAbsDiff(med, series, keep, t + 1)

\* mask = np.isnan(data[f]) + np.isnan(med)
misfit_mask(med, series) == [t \in 1..Len(series) |-> isnan(series[t]) \/ isnan(med[t])]

\* a mean taken over all rows instead of the rows kept by the mask
mean_misfit_of_all_rows(med, series) ==
    LET mask == misfit_mask(med, series)
        unique == {mask[t] : t \in 1..Len(mask)}
        keep == [t \in 1..Len(mask) |-> ~mask[t]]
        count == Cardinality({t \in 1..Len(mask) : keep[t]})
    IN  IF unique = {TRUE} THEN [kind |-> "nan", num |-> 0, den |-> 1]
        ELSE IF count = 0 THEN [kind |-> "raise", num |-> 0, den |-> 1]
        ELSE [kind |-> "num", num |-> SumAbsDiff(med, series, keep, 1), den |-> 2 * Len(mask)]

\* the local mean_misfit of one loop iteration:
\*   "nan"   when len(np.unique(mask)) == 1 and np.unique(mask)[0]
\*   "raise" when mae is called on empty arrays (sklearn raises ValueError)
\*   "num"   mae(med[~mask], data[f][~mask]) as the fraction num / den
mean_misfit_of(med, series) ==
    LET mask == misfit_mask(med, series)
        unique == {mask[t] : t \in 1..Len(mask)}
        keep == [t \in 1..Len(mask) |-> ~mask[t]]
        count == Cardinality({t \in 1..Len(mask) : keep[t]})
    IN  IF unique = {TRUE} THEN [kind |-> "nan", num |-> 0, den |-> 1]
        ELSE IF count = 0 THEN [kind |-> "raise", num |-> 0, den |-> 1]
        ELSE [kind |-> "num", num |-> SumAbsDiff(med, series, keep, 1), den |-> 2 * count]

\* a comparison that also reports a misfit equal to the threshold
exceeds_or_equals(mm, th) == mm.kind = "num" /\ Abs(mm.num) >= th * mm.den

\* if np.abs(mean_misfit) > threshold (False for nan)
exceeds(mm, th) == mm.kind = "num" /\ Abs(mm.num) > th * mm.den

Range(q) == {q[k] : k \in 1..Len(q)}

\* a choice in which the loop over east_in compares with med_west
median_for_east_west(ids, medians, f) ==
    IF f \in Range(ids.south) THEN medians.med_south ELSE medians.med_west

\* the median series the loop that handles member f compares it with:
\* med_west in "for f in west_in", med_east in "for f in east_in",
\* med_south in "for f in south_in"
median_for(ids, medians, f) ==
    IF f \in Range(ids.west) THEN medians.med_west
    ELSE IF f \in Range(ids.east) THEN medians.med_east
    ELSE medians.med_south

\* get_vault_outliers_median_filter(data, after, threshold, True, masked_BHEs)
get_vault_outliers_median_filter(tbl, after, th, masked) ==
    LET ids == get_ID_strings(after, masked)
        medians == [med_west |-> nanmedian(tbl, ids.west),
                    med_south |-> nanmedian(tbl, ids.south),
                    med_east |-> nanmedian(tbl, ids.east)]
        members == Range(ids.west) \cup Range(ids.south) \cup Range(ids.east)
        mm == [f \in members |-> mean_misfit_of(median_for(ids, medians, f), tbl[f])]
        outliers == {f \in members : exceeds(mm[f], th)}
    IN  IF \E f \in members : mm[f].kind = "raise"
            THEN [status |-> "ValueError", mean_misfit_dict |-> << >>,
                  medians |-> medians, mean_misfit |-> mm, ids |-> ids]
            ELSE [status |-> "ok",
                  mean_misfit_dict |-> [f \in outliers |-> [num |-> mm[f].num, den |-> mm[f].den]],
                  medians |-> medians, mean_misfit |-> mm, ids |-> ids]

-----------------------------------------------------------------------------
(* Inputs of the outlier detector *)

Columns == {IdString("Probe_", x, "_T_in") : x \in 1..40}
\* the columns that get non-missing cells: three of west, one of east
ActiveColumns == {IdString("Probe_", x, "_T_in") : x \in {1, 2, 3, 23}}
TempVals == {100, 104}
Thresholds == {1, 2}
MaskedChoices == {None, List(<<"Probe_02_T_in", "Probe_41_T_in">>)}

EmptyTable(n) == [c \in Columns |-> Const(NaN, n)]
NoReport == [status |-> "none", mean_misfit_dict |-> << >>,
             medians |-> [med_west |-> << >>, med_south |-> << >>, med_east |-> << >>],
             mean_misfit |-> << >>,
             ids |-> [west |-> << >>, south |-> << >>, east |-> << >>]]
Cells(tbl) == {<<c, t>> \in ActiveColumns \X (1..Rows(tbl)) : IsNum(tbl[c][t])}

-----------------------------------------------------------------------------
(* Each detector is exercised by a specification of its own; the other    *)
(* detector's variables then stay at these values.                        *)

MaskIdle ==
    /\ data = [T_in |-> << >>, T_out |-> << >>, V_dot |-> << >>]
    /\ runs = 0
    /\ BHE = StrId("07")
    /\ timestep = 30
    /\ result = NoResult
    /\ result2 = NoResult
    /\ locals = NoLocals

OutlierIdle ==
    /\ table = EmptyTable(0)
    /\ threshold = 0
    /\ masked_BHEs = None
    /\ report = NoReport

NoShafts == [before |-> "", after |-> "", west |-> << >>, south |-> << >>, east |-> << >>]

LookupIdle ==
    /\ calls = << >>
    /\ shafts = NoShafts

PipelineIdle == pipeline = [input |-> << >>, table |-> << >>, done |-> {}]

NoLoader == [pc |-> "idle", start |-> << >>, end |-> << >>,
             time_start |-> << >>, files |-> << >>]

LoaderIdle == loader = NoLoader

-----------------------------------------------------------------------------
(* The state machine: a caller builds a device's columns run by run, then  *)
(* calls create_BHE_data_mask once.                                        *)

Init ==
    /\ pc = "input"
    /\ data = [T_in |-> << >>, T_out |-> << >>, V_dot |-> << >>]
    /\ runs = 0
    /\ BHE = StrId("07")
    /\ timestep = 30
    /\ result = NoResult
    /\ result2 = NoResult
    /\ locals = NoLocals
    /\ OutlierIdle
    /\ LookupIdle
    /\ PipelineIdle
    /\ LoaderIdle

AppendRun(v, n) ==
    /\ pc = "input"
    /\ runs < MaxRuns
    /\ Len(data.V_dot) + n <= MaxLen
    /\ data' = [T_in |-> data.T_in \o Const(TempSample, n),
                T_out |-> data.T_out \o Const(TempSample, n),
                V_dot |-> data.V_dot \o Const(v, n)]
    /\ runs' = runs + 1
    /\ UNCHANGED <<pc, BHE, timestep, result, result2, locals>>
    /\ UNCHANGED outlierVars
    /\ UNCHANGED lookupVars
    /\ UNCHANGED pipeline
    /\ UNCHANGED loader

Call(b, ts) ==
    /\ pc = "input"
    /\ BHE' = b
    /\ timestep' = ts
    /\ result' = create_BHE_data_mask(data, b, ts)
    /\ locals' = CallLocals(data, b, ts)
    /\ pc' = "done"
    /\ UNCHANGED <<data, runs, result2>>
    /\ UNCHANGED outlierVars
    /\ UNCHANGED lookupVars
    /\ UNCHANGED pipeline
    /\ UNCHANGED loader

Next ==
    \/ \E v \in FlowKinds, n \in RunLens : AppendRun(v, n)
    \/ \E b \in Devices, ts \in Timesteps : Call(b, ts)

Spec == Init /\ [][Next]_vars

-----------------------------------------------------------------------------
(* The monthly loop of load_data.  A datetime is <<year, month, day,       *)
(* second of the day>>; a monthly file is named by <<year, month>>.        *)

\* calendar.isleap(y)
IsLeap(y) == (y % 4 = 0 /\ y % 100 # 0) \/ y % 400 = 0

\* calendar.monthrange(y, m)[1]: the number of days of the month
monthrange(y, m) ==
    IF m = 2 THEN (IF IsLeap(y) THEN 29 ELSE 28)
    ELSE IF m \in {4, 6, 9, 11} THEN 30 ELSE 31

\* a <= b for two datetimes
DateLeq(a, b) ==
    \/ a[1] < b[1]
    \/ a[1] = b[1] /\ a[2] < b[2]
    \/ a[1] = b[1] /\ a[2] = b[2] /\ a[3] < b[3]
    \/ a[1] = b[1] /\ a[2] = b[2] /\ a[3] = b[3] /\ a[4] <= b[4]

\* t + relativedelta(months=+1): the next month, the year carried, the day
\* clipped to the length of that month, the time of day kept
relativedelta_months1(t) ==
    LET year == IF t[2] = 12 THEN t[1] + 1 ELSE t[1]
        month == IF t[2] = 12 THEN 1 ELSE t[2] + 1
    IN  <<year, month, Min(t[3], monthrange(year, month)), t[4]>>

\* the k-th month from December 2019 on, k >= 0
LoaderMonth(k) == <<2019 + ((11 + k) \div 12), ((11 + k) % 12) + 1>>
LoaderDays == {1, 15, 29, 31}
\* 00:00:00, 12:00:00 and 23:59:59
LoaderTimes == {0, 43200, 86399}

\* the datetimes start_date and end_date are parsed to
LoaderDates ==
    {x \in {<<LoaderMonth(k)[1], LoaderMonth(k)[2], d, t>> :
               k \in 0..(LoaderMonths - 1), d \in LoaderDays, t \in LoaderTimes} :
        x[3] <= monthrange(x[1], x[2])}

InitLoader ==
    /\ pc = "input"
    /\ \E a, b \in LoaderDates :
         /\ DateLeq(a, b)
         /\ loader = [pc |-> "loop", start |-> a, end |-> b,
                      time_start |-> a, files |-> << >>]
    /\ MaskIdle
    /\ OutlierIdle
    /\ LookupIdle
    /\ PipelineIdle

\* one pass of 'while time_start <= time_end_global': the file of the
\* cursor's month is read and appended, and the cursor moves on one month
ReadMonth ==
    /\ loader.pc = "loop"
    /\ DateLeq(loader.time_start, loader.end)
    /\ loader' = [loader EXCEPT
                     !.files = Append(@, <<loader.time_start[1], loader.time_start[2]>>),
                     !.time_start = relativedelta_months1(@)]
    /\ UNCHANGED pc
    /\ UNCHANGED maskVars
    /\ UNCHANGED outlierVars
    /\ UNCHANGED lookupVars
    /\ UNCHANGED pipeline

\* the loop condition fails; the rows of [start, end] are selected from what
\* was read and returned
LoaderReturn ==
    /\ loader.pc = "loop"
    /\ ~DateLeq(loader.time_start, loader.end)
    /\ loader' = [loader EXCEPT !.pc = "done"]
    /\ UNCHANGED pc
    /\ UNCHANGED maskVars
    /\ UNCHANGED outlierVars
    /\ UNCHANGED lookupVars
    /\ UNCHANGED pipeline

NextLoader == ReadMonth \/ LoaderReturn

SpecLoader == InitLoader /\ [][NextLoader]_vars

-----------------------------------------------------------------------------
(* The temperature scenario: the caller builds the three columns of a      *)
(* device run by run, the temperatures varying (missing values included)   *)
(* independently of the flow, then calls create_BHE_data_mask once.        *)

TempFlows == {NaN, Num(4), Num(6)}
\* the inlet and outlet temperature of a run
TempPairs == {<<NaN, NaN>>, <<Num(100), NaN>>, <<Num(100), Num(250)>>}
TempLens == {1, min_gap_size + 1}
\* the device and the sampling interval of the call: 3 and 19 look-ahead steps
TempCalls == {<<StrId("07"), 300>>, <<IntId(18), 30>>}

AppendTemps(v, t, n) ==
    /\ pc = "input"
    /\ runs < TempRuns
    /\ data' = [T_in |-> data.T_in \o Const(t[1], n),
                T_out |-> data.T_out \o Const(t[2], n),
                V_dot |-> data.V_dot \o Const(v, n)]
    /\ runs' = runs + 1
    /\ UNCHANGED <<pc, BHE, timestep, result, result2, locals>>
    /\ UNCHANGED outlierVars
    /\ UNCHANGED lookupVars
    /\ UNCHANGED pipeline
    /\ UNCHANGED loader

NextTemps ==
    \/ \E v \in TempFlows, t \in TempPairs, n \in TempLens : AppendTemps(v, t, n)
    \/ \E c \in TempCalls : Call(c[1], c[2])

SpecTemps == Init /\ [][NextTemps]_vars

-----------------------------------------------------------------------------
(* The two copies side by side: after load.create_BHE_data_mask has been   *)
(* called, load2.create_BHE_data_mask is called with the same arguments.   *)

Call2 ==
    /\ pc = "done"
    /\ result2' = load2_create_BHE_data_mask(data, BHE, timestep)
    /\ pc' = "compared"
    /\ UNCHANGED <<data, runs, BHE, timestep, result, locals>>
    /\ UNCHANGED outlierVars
    /\ UNCHANGED lookupVars
    /\ UNCHANGED pipeline
    /\ UNCHANGED loader

NextCopies ==
    \/ \E v \in FlowKinds, n \in RunLens : AppendRun(v, n)
    \/ \E b \in Devices, ts \in Timesteps : Call(b, ts)
    \/ Call2

SpecCopies == Init /\ [][NextCopies]_vars

-----------------------------------------------------------------------------
(* The device "07" scenario: normal flow, 25 missing samples, normal flow  *)
(* again, at the default sampling interval of 30 s.  The gap starts around *)
(* index 100 and the tail is long enough that no window is clipped.        *)

ScenarioStarts == (100 - ScenarioSlack)..(100 + ScenarioSlack)
ScenarioTails == 51..(51 + ScenarioSlack)

ScenarioFlow(a, b) == Const(Num(6), a) \o Const(NaN, 25) \o Const(Num(6), b)

InitScenario ==
    /\ pc = "input"
    /\ \E a \in ScenarioStarts, b \in ScenarioTails :
         data = [T_in |-> Const(TempSample, a + 25 + b),
                 T_out |-> Const(TempSample, a + 25 + b),
                 V_dot |-> ScenarioFlow(a, b)]
    /\ runs = 3
    /\ BHE = StrId("07")
    /\ timestep = 30
    /\ result = NoResult
    /\ result2 = NoResult
    /\ locals = NoLocals
    /\ OutlierIdle
    /\ LookupIdle
    /\ PipelineIdle
    /\ LoaderIdle

NextScenario == \E b \in {StrId("07"), IntId(7)} : Call(b, 30)

SpecScenario == InitScenario /\ [][NextScenario]_vars

-----------------------------------------------------------------------------
(* The step-count scenario: create_BHE_data_mask is called for every       *)
(* device of the transit-time table, named by string or by number, with    *)
(* every sampling interval up to MaxInterval s and some longer ones, on a  *)
(* short table with one low-flow sample.                                   *)

AllDevices == {StrId(Format02d(n)) : n \in 1..40} \cup {IntId(n) : n \in 1..40}
Intervals == (1..MaxInterval) \cup {300, 900}
StepsFrame == [T_in |-> Const(TempSample, 3), T_out |-> Const(TempSample, 3),
               V_dot |-> <<Num(6), Num(4), Num(6)>>]

InitSteps ==
    /\ pc = "input"
    /\ data = StepsFrame
    /\ runs = 1
    /\ BHE = StrId("07")
    /\ timestep = 30
    /\ result = NoResult
    /\ result2 = NoResult
    /\ locals = NoLocals
    /\ OutlierIdle
    /\ LookupIdle
    /\ PipelineIdle
    /\ LoaderIdle

NextSteps == \E b \in AllDevices, ts \in Intervals : Call(b, ts)

SpecSteps == InitSteps /\ [][NextSteps]_vars

-----------------------------------------------------------------------------
(* The outlier state machine: a caller fills cells of an all-missing table *)
(* and then calls get_vault_outliers_median_filter once.                   *)

InitOutlier ==
    /\ pc = "input"
    /\ MaskIdle
    /\ LookupIdle
    /\ PipelineIdle
    /\ LoaderIdle
    /\ \E n \in 0..MaxRows : table = EmptyTable(n)
    /\ threshold = 0
    /\ masked_BHEs = None
    /\ report = NoReport

SetCell(c, t, v) ==
    /\ pc = "input"
    /\ t <= Rows(table)
    /\ isnan(table[c][t])
    /\ Cardinality(Cells(table)) < MaxCells
    /\ table' = [table EXCEPT ![c][t] = Num(v)]
    /\ UNCHANGED <<pc, threshold, masked_BHEs, report>>
    /\ UNCHANGED maskVars
    /\ UNCHANGED lookupVars
    /\ UNCHANGED pipeline
    /\ UNCHANGED loader

OutlierCall(th, masked) ==
    /\ pc = "input"
    /\ threshold' = th
    /\ masked_BHEs' = masked
    /\ report' = get_vault_outliers_median_filter(table, "_T_in", th, masked)
    /\ pc' = "done"
    /\ UNCHANGED table
    /\ UNCHANGED maskVars
    /\ UNCHANGED lookupVars
    /\ UNCHANGED pipeline
    /\ UNCHANGED loader

NextOutlier ==
    \/ \E c \in ActiveColumns, t \in 1..MaxRows, v \in TempVals : SetCell(c, t, v)
    \/ \E th \in Thresholds, masked \in MaskedChoices : OutlierCall(th, masked)

SpecOutlier == InitOutlier /\ [][NextOutlier]_vars

-----------------------------------------------------------------------------
(* The constant-offset scenario: three rows, temperatures in hundredths of *)
(* a degree.  Two members of a group read 10.00 throughout, a third reads  *)
(* 10.00 plus a constant offset and may miss one row; the detector is then *)
(* called with threshold 0.15 or 0.25.                                     *)

OffsetGroups == {<<1, 2, 3, 4>>, <<13, 14, 15, 24>>, <<23, 26, 27, 40>>}
Offsets == {10, 20, 30}
OffsetThresholds == {15, 25}
OffsetColumn(x) == IdString("Probe_", x, "_T_in")

\* members a and b at 10.00, member c at 10.00 + d except at its missing row h
OffsetTable(a, b, c, d, h) ==
    [f \in Columns |->
        IF f = OffsetColumn(a) \/ f = OffsetColumn(b) THEN Const(Num(1000), 3)
        ELSE IF f = OffsetColumn(c)
            THEN [t \in 1..3 |-> IF t = h THEN NaN ELSE Num(1000 + d)]
        ELSE Const(NaN, 3)]

InitOffset ==
    /\ pc = "input"
    /\ MaskIdle
    /\ LookupIdle
    /\ PipelineIdle
    /\ LoaderIdle
    /\ \E g \in OffsetGroups, d \in Offsets, h \in 0..3 :
        \E i, j, k \in 1..Len(g) :
            /\ i < j /\ k # i /\ k # j
            /\ table = OffsetTable(g[i], g[j], g[k], d, h)
    /\ threshold = 0
    /\ masked_BHEs = None
    /\ report = NoReport

NextOffset == \E th \in OffsetThresholds : OutlierCall(th, None)

SpecOffset == InitOffset /\ [][NextOffset]_vars

-----------------------------------------------------------------------------
(* The exclusion scenario: one row with readings of three west and two     *)
(* east devices; the detector is called with an exclusion list that may    *)
(* name devices of several groups, unknown identifiers, an identifier      *)
(* twice, or every member of a group.                                      *)

ExclusionReadings == {100, 104}
AllOf(ids_) == [k \in 1..Len(ids_) |-> IdString("Probe_", ids_[k], "_T_in")]
ExclusionChoices ==
    {None,
     List(<< >>),
     List(<<"Probe_02_T_in">>),
     List(<<"Probe_23_T_in", "Probe_41_T_in", "Probe_02_T_in">>),
     List(<<"Probe_01_T_in", "Probe_01_T_in", "Probe_24_T_in">>),
     List(<<"Probe_03_T_out", "03">>),
     List(AllOf(west_ids))}

ExclusionTable(w1, w2, w3, e1, e2) ==
    [f \in Columns |->
        CASE f = "Probe_01_T_in" -> <<Num(w1)>>
          [] f = "Probe_02_T_in" -> <<Num(w2)>>
          [] f = "Probe_03_T_in" -> <<Num(w3)>>
          [] f = "Probe_23_T_in" -> <<Num(e1)>>
          [] f = "Probe_26_T_in" -> <<Num(e2)>>
          [] OTHER -> <<NaN>>]

InitExclusion ==
    /\ pc = "input"
    /\ MaskIdle
    /\ LookupIdle
    /\ PipelineIdle
    /\ LoaderIdle
    /\ \E w1, w2, w3, e1, e2 \in ExclusionReadings :
          table = ExclusionTable(w1, w2, w3, e1, e2)
    /\ threshold = 0
    /\ masked_BHEs = None
    /\ report = NoReport

NextExclusion == \E th \in Thresholds, masked \in ExclusionChoices : OutlierCall(th, masked)

SpecExclusion == InitExclusion /\ [][NextExclusion]_vars

-----------------------------------------------------------------------------
(* The masking loop of load_data, apply_mask and create_prepared_data:     *)
(*     for BHE in BHEs:                                                    *)
(*         mask = create_BHE_data_mask(data, BHE)                          *)
(*         data.loc[mask, [T_in, T_out, V_dot of BHE]] = np.nan            *)
(* on one table shared by three devices.  An action is one iteration; the  *)
(* devices are taken in any order.  A device's flow is 21 samples that are *)
(* all missing or all normal, followed by PipelineRows samples that are    *)
(* low or normal; its temperatures identify the device.                    *)

PipelineDevices == {"07", "18", "23"}
HeadKinds == {NaN, Num(6)}
TailKinds == {Num(4), Num(6)}
TailSeqs == [1..PipelineRows -> TailKinds]

\* int(s) of a string of two decimal digits
DecVal(dev) == CHOOSE n \in 1..40 : Format02d(n) = dev

DeviceColumns(dev, head, tail) ==
    [T_in |-> Const(Num(100 + DecVal(dev)), 21 + PipelineRows),
     T_out |-> Const(Num(200 + DecVal(dev)), 21 + PipelineRows),
     V_dot |-> Const(head, 21) \o tail]

\* data[f'Probe_{BHE}_T_in'], data[f'Probe_{BHE}_T_out'], data[f'Probe_{BHE}_V_dot']
DeviceView(frame, b) == frame[NormalizeBHE(b)]

\* values[mask] = np.nan on one column
BlankColumn(col, mask) == [k \in 1..Len(col) |-> IF mask[k] THEN NaN ELSE col[k]]

\* a blanking that writes the masked rows of every device's columns
Blank_every_device(frame, dev, mask) ==
    [x \in DOMAIN frame |->
        [T_in |-> BlankColumn(frame[x].T_in, mask),
         T_out |-> BlankColumn(frame[x].T_out, mask),
         V_dot |-> BlankColumn(frame[x].V_dot, mask)]]

\* data.loc[mask, [Probe_dev_T_in, Probe_dev_T_out, Probe_dev_V_dot]] = np.nan
Blank(frame, dev, mask) ==
    [frame EXCEPT ![dev] =
        [T_in |-> BlankColumn(frame[dev].T_in, mask),
         T_out |-> BlankColumn(frame[dev].T_out, mask),
         V_dot |-> BlankColumn(frame[dev].V_dot, mask)]]

InitPipeline ==
    /\ pc = "input"
    /\ MaskIdle
    /\ OutlierIdle
    /\ LookupIdle
    /\ LoaderIdle
    /\ \E heads \in [PipelineDevices -> HeadKinds], tails \in [PipelineDevices -> TailSeqs] :
        LET frame == [dev \in PipelineDevices |-> DeviceColumns(dev, heads[dev], tails[dev])]
        IN  pipeline = [input |-> frame, table |-> frame, done |-> {}]

\* one iteration of the loop, for device dev
MaskDevice(dev) ==
    /\ dev \notin pipeline.done
    /\ LET out == create_BHE_data_mask(DeviceView(pipeline.table, StrId(dev)), StrId(dev), 30)
       IN  /\ out.status = "ok"
           /\ pipeline' = [pipeline EXCEPT !.table = Blank(pipeline.table, dev, out.mask),
                                           !.done = pipeline.done \cup {dev}]
    /\ UNCHANGED pc
    /\ UNCHANGED maskVars
    /\ UNCHANGED outlierVars
    /\ UNCHANGED lookupVars
    /\ UNCHANGED loader

NextPipeline == \E dev \in PipelineDevices : MaskDevice(dev)

SpecPipeline == InitPipeline /\ [][NextPipeline]_vars

-----------------------------------------------------------------------------
(* The lookup state machine: a caller calls get_ID_strings and             *)
(* generate_ID_strings_per_shaft, in any order, with suffixes and          *)
(* exclusion lists of its choice; every call and its outcome is logged.    *)

Prefixes == {"Probe_", "BHE_"}
Suffixes == {"_T_in", "_T_out"}
LookupMasks ==
    {None,
     List(<<"Probe_02_T_in">>),
     List(<<"Probe_24_T_in", "Probe_41_T_in", "Probe_23_T_in">>),
     List(<<"Probe_12_T_in", "Probe_12_T_in", "Probe_01_T_in">>)}

InitLookup ==
    /\ pc = "input"
    /\ MaskIdle
    /\ OutlierIdle
    /\ LookupIdle
    /\ PipelineIdle
    /\ LoaderIdle

\* generate_ID_strings_per_shaft(before, after), called directly
GenerateCall(before, after) ==
    /\ Len(calls) < MaxCalls
    /\ LET lists == new_lists(shafts, before, after)
       IN  /\ shafts' = [before |-> before, after |-> after, west |-> lists.west,
                         south |-> lists.south, east |-> lists.east]
           /\ calls' = Append(calls,
                 [fn |-> "generate_ID_strings_per_shaft", before |-> before,
                  after |-> after, masked |-> None, masked_after |-> None,
                  west |-> lists.west, south |-> lists.south, east |-> lists.east])
    /\ UNCHANGED pc
    /\ UNCHANGED maskVars
    /\ UNCHANGED outlierVars
    /\ UNCHANGED pipeline
    /\ UNCHANGED loader

\* get_ID_strings(after, masked): line 116 builds the lists, lines 119-129
\* remove from them in place
LookupCall(after, masked) ==
    /\ Len(calls) < MaxCalls
    /\ LET lists == remove_masked_BHEs(new_lists(shafts, "Probe_", after), masked)
       IN  /\ shafts' = [before |-> "Probe_", after |-> after, west |-> lists.west,
                         south |-> lists.south, east |-> lists.east]
           /\ calls' = Append(calls,
                 [fn |-> "get_ID_strings", before |-> "Probe_",
                  after |-> after, masked |-> masked,
                  masked_after |-> masked_after_loop(masked),
                  west |-> lists.west, south |-> lists.south, east |-> lists.east])
    /\ UNCHANGED pc
    /\ UNCHANGED maskVars
    /\ UNCHANGED outlierVars
    /\ UNCHANGED pipeline
    /\ UNCHANGED loader

NextLookup ==
    \/ \E before \in Prefixes, after \in Suffixes : GenerateCall(before, after)
    \/ \E after \in Suffixes, masked \in LookupMasks : LookupCall(after, masked)

SpecLookup == InitLookup /\ [][NextLookup]_vars

-----------------------------------------------------------------------------
(* Vocabulary of the properties: stated on the call's arguments and its    *)
(* outcome, with Python indices 0..N-1.                                    *)

N == Len(data.V_dot)
Idx == 0..(N - 1)
Done == pc = "done"
Known == NormalizeBHE(BHE) \in DOMAIN MASKING_TIMES
Returned == result.status = "ok"
Masked(j) == result.mask[j + 1]
Missing(i) == data.V_dot[i + 1] = NaN
\* a non-missing flow sample below 0.5
Low(i) == ~Missing(i) /\ data.V_dot[i + 1][1] < 5

\* [s, e) is a maximal run of consecutive missing flow values
IsRun(s, e) ==
    /\ 0 <= s /\ s < e /\ e <= N
    /\ \A i \in s..(e - 1) : Missing(i)
    /\ s = 0 \/ ~Missing(s - 1)
    /\ e = N \/ ~Missing(e)

RunStarts == {s \in Idx : Missing(s) /\ (s = 0 \/ ~Missing(s - 1))}
RunEnd(s) == CHOOSE e \in (s + 1)..N : IsRun(s, e)
Runs == {<<s, RunEnd(s)>> : s \in RunStarts}

\* the least n with n * timestep >= transit time of the addressed device
Steps == CHOOSE n \in 0..1000 :
            /\ n * timestep * 100 >= MASKING_TIMES[NormalizeBHE(BHE)]
            /\ (n - 1) * timestep * 100 < MASKING_TIMES[NormalizeBHE(BHE)]

AllFalse == \A j \in Idx : ~Masked(j)

\* C1: when the only abnormal samples of the flow series are one run of
\* missing values [start, end) longer than 20 samples, the call returns a mask
\* that is True on all of [start, min(end + nsteps, N)).
C1_GapRunMasked ==
    (Done /\ Known) =>
        /\ Returned
        /\ \A r \in Runs :
             (/\ Runs = {r}
              /\ r[2] - r[1] > 20
              /\ \A i \in Idx : ~Low(i))
             => \A j \in r[1]..(Min(r[2] + Steps, N) - 1) : Masked(j)

\* a single long run after a normal sample, with normal samples left after
\* the look-ahead range
C1_Witness ==
    /\ Done /\ Known /\ Returned
    /\ \A i \in Idx : ~Low(i)
    /\ \E r \in Runs :
         /\ Runs = {r}
         /\ r[1] > 0
         /\ r[2] - r[1] > 20
         /\ r[2] + Steps < N
         /\ \A j \in r[1]..(r[2] + Steps - 1) : Masked(j)

\* C2: when no flow sample is below 0.5 and every run of missing values has
\* at most 20 samples, the returned mask is False everywhere, the missing
\* samples included.
C2_ShortGapsIgnored ==
    (/\ Done /\ Known
     /\ \A i \in Idx : ~Low(i)
     /\ \A r \in Runs : r[2] - r[1] <= 20)
    => (Returned /\ Len(result.mask) = N /\ AllFalse)

\* a run of exactly 20 missing samples that is left unmasked
C2_Witness ==
    /\ Done /\ Known /\ Returned
    /\ \A i \in Idx : ~Low(i)
    /\ \E r \in Runs : r[2] - r[1] = 20
    /\ \A r \in Runs : r[2] - r[1] <= 20
    /\ AllFalse

\* C3: every flow sample below 0.5, at index i, makes the mask True on
\* [i, min(i + nsteps + 1, N)); a series whose samples are all exactly 0.5
\* has no low-flow sample and gets an all-False mask.
C3_LowFlowWindow ==
    (Done /\ Known) =>
        /\ Returned
        /\ \A i \in Idx :
             Low(i) => \A j \in i..(Min(i + Steps + 1, N) - 1) : Masked(j)
        /\ (\A i \in Idx : data.V_dot[i + 1] = Num(5)) => AllFalse

\* a low-flow sample with no missing value in the series, whose window ends
\* inside the series
C3_Witness ==
    /\ Done /\ Known /\ Returned
    /\ \A i \in Idx : ~Missing(i)
    /\ \E i \in Idx :
         /\ Low(i)
         /\ i + Steps + 1 < N
         /\ \A j \in i..(i + Steps) : Masked(j)
         /\ \A k \in Idx : k # i => ~Low(k)

\* C4 (as claimed): for device "07" at 30 s (nsteps = 25) and a gap at
\* [100, 125), the mask is True over [100, 150) and the masked interval is
\* [100, 151): index 150 is the last masked sample.
C4_MaskedUntil151 ==
    (Done /\ Runs = {<<100, 125>>}) =>
        /\ Returned
        /\ \A j \in 100..149 : Masked(j)
        /\ \A j \in Idx : Masked(j) <=> (100 <= j /\ j < 151)

\* C4 (amended): in that scenario nsteps is 25, the mask is True over
\* [100, 150), and the masked interval is [100, 175): the gap is widened to
\* [100, 150) and each of its indices starts a window of 26 samples, so index
\* 174 is the last masked sample.
C4_MaskedUntil175 ==
    (Done /\ Runs = {<<100, 125>>}) =>
        /\ Returned
        /\ Steps = 25
        /\ \A j \in 100..149 : Masked(j)
        /\ \A j \in Idx : Masked(j) <=> (100 <= j /\ j < 175)

\* the scenario itself: the gap at [100, 125), index 174 masked and index
\* 175 inside the series and unmasked
C4_Witness ==
    /\ Done /\ Returned
    /\ NormalizeBHE(BHE) = "07" /\ timestep = 30
    /\ Runs = {<<100, 125>>}
    /\ N > 175
    /\ Masked(174) /\ ~Masked(175)

\* C5: for a device of the transit-time table the call returns, for every
\* series length N >= 0, a mask of exactly N entries.
C5_MaskLength ==
    (Done /\ Known) => (Returned /\ Len(result.mask) = N)

\* a trigger in the last sample: its window would end past the series
C5_Witness ==
    /\ Done /\ Known /\ Returned
    /\ N > 0
    /\ Low(N - 1)
    /\ Steps > 0
    /\ Len(result.mask) = N

\* C6 (as claimed): for a device without an entry in the transit-time table
\* the call returns a mask computed with nsteps = 0, i.e. the mask is True
\* exactly at the low-flow samples and on the runs of more than 20 missing
\* samples.
C6_UnknownDeviceZeroSteps ==
    (Done /\ ~Known) =>
        /\ Returned
        /\ Len(result.mask) = N
        /\ \A j \in Idx :
             Masked(j) <=> (Low(j) \/ \E r \in Runs :
                                        r[2] - r[1] > 20 /\ r[1] <= j /\ j < r[2])

\* C7: the (start, end) pairs of the gap-run detection are exactly the
\* maximal runs of consecutive missing values, in increasing order, as many
\* starts as ends.
C7_GapRunsExact ==
    (Done /\ Returned) =>
        LET S == locals.nan_starts
            E == locals.nan_ends
        IN  /\ Len(S) = Len(E)
            /\ \A k \in 1..Len(S) : IsRun(S[k], E[k])
            /\ \A k \in 1..(Len(S) - 1) : E[k] < S[k + 1]
            /\ \A i \in Idx : Missing(i) =>
                   \E k \in 1..Len(S) : S[k] <= i /\ i < E[k]
            /\ (\A i \in Idx : ~Missing(i)) => Len(S) = 0
            /\ (N > 0 /\ \A i \in Idx : Missing(i)) => (S = <<0>> /\ E = <<N>>)

\* two runs, one starting at index 0 and one ending at index N - 1
C7_Witness ==
    /\ Done /\ Returned
    /\ Len(locals.nan_starts) = 2
    /\ locals.nan_starts[1] = 0
    /\ locals.nan_ends[2] = N
    /\ locals.nan_ends[1] < locals.nan_starts[2]

-----------------------------------------------------------------------------
(* Vocabulary of the outlier properties: the three shafts as sets of       *)
(* device numbers, a group's members as the column names of its devices    *)
(* that the caller did not exclude, timestamps as rows 1..Rows(table).     *)

GroupNames == {"west", "south", "east"}
Shaft(g) == CASE g = "west" -> 1..12
              [] g = "south" -> (13..22) \cup {24, 25}
              [] g = "east" -> {23} \cup (26..40)
Excluded == IF masked_BHEs.given THEN Range(masked_BHEs.list) ELSE {}
WestColumns == {IdString("Probe_", x, "_T_in") : x \in Shaft("west")}
SouthColumns == {IdString("Probe_", x, "_T_in") : x \in Shaft("south")}
EastColumns == {IdString("Probe_", x, "_T_in") : x \in Shaft("east")}
GroupMembers(g) ==
    (CASE g = "west" -> WestColumns
       [] g = "south" -> SouthColumns
       [] g = "east" -> EastColumns) \ Excluded
Timestamps == 1..Rows(table)
OutDone == pc = "done" /\ report.status # "none"
OutReturned == OutDone /\ report.status = "ok"
Reported(f) == f \in DOMAIN report.mean_misfit_dict
MedianOf(g) == CASE g = "west" -> report.medians.med_west
                 [] g = "south" -> report.medians.med_south
                 [] g = "east" -> report.medians.med_east
\* the timestamps at which both the member and its group's median are present
Valid(f, g) == {t \in Timestamps : IsNum(table[f][t]) /\ IsNum(MedianOf(g)[t])}
\* twice the absolute difference of member and median at a valid timestamp
Dev2(f, g, t) == Abs(MedianOf(g)[t][1] - 2 * table[f][t][1])
RECURSIVE SumDev2(_, _, _)
SumDev2(f, g, S) ==
    IF S = {} THEN 0
    ELSE LET t == CHOOSE u \in S : TRUE
         IN  Dev2(f, g, t) + SumDev2(f, g, S \ {t})
\* misfit > threshold and misfit = threshold, cross-multiplied:
\* misfit = SumDev2 / (2 * number of valid timestamps)
MisfitAbove(f, g) ==
    Valid(f, g) # {} /\ SumDev2(f, g, Valid(f, g)) > threshold * 2 * Cardinality(Valid(f, g))
MisfitEquals(f, g) ==
    Valid(f, g) # {} /\ SumDev2(f, g, Valid(f, g)) = threshold * 2 * Cardinality(Valid(f, g))

\* C8: a call that returns reports a group member if and only if its misfit,
\* the mean absolute difference between the member and its group's median
\* over exactly the timestamps at which both are non-missing, is strictly
\* greater than the threshold; the value stored for a reported member is that
\* misfit, nothing but group members is reported, and a member whose misfit
\* equals the threshold is not reported.
C8_ReportedIffAbove ==
    OutReturned =>
        /\ \A g \in GroupNames : \A f \in GroupMembers(g) :
            LET valid == Valid(f, g)
                sum2 == SumDev2(f, g, valid)
                above == valid # {} /\ sum2 > threshold * 2 * Cardinality(valid)
                equal == valid # {} /\ sum2 = threshold * 2 * Cardinality(valid)
            IN  /\ Reported(f) <=> above
                /\ Reported(f) =>
                      report.mean_misfit_dict[f].num * 2 * Cardinality(valid)
                          = sum2 * report.mean_misfit_dict[f].den
                /\ equal => ~Reported(f)
        /\ DOMAIN report.mean_misfit_dict \subseteq UNION {GroupMembers(g) : g \in GroupNames}

\* a returned call that reports one member of the west group while another
\* member of that group, whose misfit equals the positive threshold, is not
\* reported
C8_Witness ==
    /\ OutReturned
    /\ threshold > 0
    /\ \E f \in GroupMembers("west") : Reported(f)
    /\ \E f \in GroupMembers("west") : MisfitEquals(f, "west") /\ ~Reported(f)

\* C9: whenever the detector is called, a member with no timestamp at which
\* both its own value and its group's median are non-missing has an undefined
\* misfit (neither zero nor any other number), is not reported, and the call
\* returns instead of failing.
C9_NoCommonTimestampUndefined ==
    OutDone =>
        \A g \in GroupNames : \A f \in GroupMembers(g) :
            Valid(f, g) = {} =>
                /\ report.status = "ok"
                /\ report.mean_misfit[f].kind = "nan"
                /\ ~Reported(f)

\* the values of the members of a group present at a timestamp
Present(g, t) == {f \in GroupMembers(g) : IsNum(table[f][t])}
ValueAt(f, t) == table[f][t][1]
\* v is the k-th smallest of the values present in group g at timestamp t
IsKth(g, t, v, k) ==
    LET present == Present(g, t)
    IN  /\ Cardinality({f \in present : ValueAt(f, t) < v}) < k
        /\ Cardinality({f \in present : ValueAt(f, t) <= v}) >= k
\* m2 is twice the median of the values present in group g at timestamp t:
\* the middle value of an odd count, the mean of the two middle values of an
\* even count
IsMedian2(g, t, m2) ==
    LET present == Present(g, t)
        n == Cardinality(present)
    IN  \E fa, fb \in present :
            /\ m2 = ValueAt(fa, t) + ValueAt(fb, t)
            /\ IsKth(g, t, ValueAt(fa, t), (n + 1) \div 2)
            /\ IsKth(g, t, ValueAt(fb, t), (n \div 2) + 1)

\* C10: in a call that returns, each group's median series has one entry per
\* timestamp; the entry is the median of the values of exactly the group
\* members that are non-missing at that timestamp, it equals the value of
\* the only non-missing member when there is exactly one, and it is missing
\* when all members are missing at that timestamp.
C10_MedianOfPresentMembers ==
    OutReturned =>
        \A g \in GroupNames :
            /\ Len(MedianOf(g)) = Rows(table)
            /\ \A t \in Timestamps :
                LET present == Present(g, t)
                IN  /\ present = {} => isnan(MedianOf(g)[t])
                    /\ present # {} =>
                          /\ IsNum(MedianOf(g)[t])
                          /\ IsMedian2(g, t, MedianOf(g)[t][1])
                    /\ \A f \in present :
                          present = {f} => MedianOf(g)[t] = Num(2 * ValueAt(f, t))

\* a returned call in which, at one timestamp, the west group has two
\* non-missing members with different values, the east group exactly one and
\* the south group none
C10_Witness ==
    /\ OutReturned
    /\ \E t \in Timestamps :
        /\ \E fa, fb \in Present("west", t) :
              Present("west", t) = {fa, fb} /\ ValueAt(fa, t) < ValueAt(fb, t)
        /\ Cardinality(Present("east", t)) = 1
        /\ Present("south", t) = {}

\* the member equals its group's median at every timestamp where both are
\* defined
EqualsMedian(f, g) ==
    \A t \in Valid(f, g) : 2 * ValueAt(f, t) = MedianOf(g)[t][1]
\* the local mean_misfit of the member's iteration is the number 0
MisfitZero(f) ==
    report.mean_misfit[f].kind = "num" /\ report.mean_misfit[f].num = 0

\* C11: whenever the detector is called with a positive threshold, a member
\* that equals its group's median at every timestamp where both are defined
\* (there being at least one such timestamp; a member with none is the case
\* of C9) has misfit 0 and is not in the returned mapping, and the call
\* returns.
C11_EqualMemberWithOverlapZeroMisfit ==
    (OutDone /\ threshold > 0) =>
        \A g \in GroupNames : \A f \in GroupMembers(g) :
            (Valid(f, g) # {} /\ EqualsMedian(f, g)) =>
                (report.status = "ok" /\ MisfitZero(f) /\ ~Reported(f))

\* a returned call with a positive threshold in which a west member with a
\* defined timestamp equals the median while another west member is reported
C11_Witness ==
    /\ OutReturned
    /\ threshold > 0
    /\ \E f \in GroupMembers("west") :
          Valid(f, "west") # {} /\ EqualsMedian(f, "west") /\ ~Reported(f)
    /\ \E f \in GroupMembers("west") : Reported(f)

\* the member differs from its group's median by c2 / 2 at every timestamp
\* where both are defined, and there is such a timestamp
ConstantOffset(f, g, c2) ==
    Valid(f, g) # {} /\ \A t \in Valid(f, g) : Dev2(f, g, t) = c2
\* the reported misfit of f is c2 / 2
ReportedWith(f, c2) ==
    Reported(f) /\ 2 * report.mean_misfit_dict[f].num = c2 * report.mean_misfit_dict[f].den
\* the table of the concrete scenario: a and b read 10, 10, 10 and c reads
\* 10.2, 10.2, 10.2
IsTriple(a, b, c) ==
    /\ table[a] = Const(Num(1000), 3)
    /\ table[b] = Const(Num(1000), 3)
    /\ table[c] = Const(Num(1020), 3)
    /\ \A f \in Columns \ {a, b, c} : table[f] = Const(NaN, 3)

\* C12: whenever the detector is called, a member whose value differs from
\* its group's median by the same constant c > threshold at every timestamp
\* where both are defined (at least one) is reported with misfit c, and the
\* call returns.  In the concrete scenario (10, 10, 10 / 10, 10, 10 /
\* 10.2, 10.2, 10.2, threshold 0.15) the median is 10 at every timestamp, the
\* first two members are not reported and the third is reported with 0.2.
C12_ConstantOffsetReported ==
    OutDone =>
        /\ \A g \in GroupNames : \A f \in GroupMembers(g) : \A c2 \in 0..80 :
              (ConstantOffset(f, g, c2) /\ c2 > 2 * threshold) =>
                  (report.status = "ok" /\ ReportedWith(f, c2))
        /\ \A g \in GroupNames : \A a, b, c \in GroupMembers(g) :
              (IsTriple(a, b, c) /\ threshold = 15) =>
                  /\ report.status = "ok"
                  /\ MedianOf(g) = Const(Num(2000), 3)
                  /\ ~Reported(a) /\ ~Reported(b)
                  /\ ReportedWith(c, 40)
                  /\ DOMAIN report.mean_misfit_dict = {c}

\* the concrete scenario has been run with threshold 0.15: the west group
\* holds the three members and the third is reported
C12_Witness ==
    /\ OutReturned
    /\ threshold = 15
    /\ \E a, b, c \in GroupMembers("west") :
          a # b /\ IsTriple(a, b, c) /\ ReportedWith(c, 40) /\ ConstantOffset(c, "west", 40)

\* the columns of group g whose cells the second input may change, and the
\* values it may put there
AltDevices == {1, 2, 13, 14, 23, 26}
AltValues == {NaN, Num(1000), Num(1020)}
AltColumns(g) == {IdString("Probe_", x, "_T_in") : x \in Shaft(g) \cap AltDevices}
\* the inputs that differ from the table in one cell of one device of group g
AltTables(g) ==
    {[table EXCEPT ![c][t] = v] : c \in AltColumns(g), t \in Timestamps, v \in AltValues}
\* the outcome of the same call on another table
Rerun(tbl) == get_vault_outliers_median_filter(tbl, "_T_in", threshold, masked_BHEs)
\* what an outcome says about group g: its median series, the misfit of each
\* of its members and the entries of the mapping that belong to its members
GroupView(r, g) ==
    [median |-> CASE g = "west" -> r.medians.med_west
                  [] g = "south" -> r.medians.med_south
                  [] g = "east" -> r.medians.med_east,
     misfit |-> [f \in GroupMembers(g) |-> r.mean_misfit[f]],
     reported |-> [f \in GroupMembers(g) \cap DOMAIN r.mean_misfit_dict |-> r.mean_misfit_dict[f]]]

\* C13: whenever the detector has been called, the same call on an input
\* that differs only in the series of a device of one group gives the other
\* two groups the same median series, the same misfits and the same reported
\* outliers.  (Inputs that differ in several cells of one group are reached
\* by changing one cell at a time.)
C13_GroupsIndependent ==
    OutDone =>
        \A g \in GroupNames : \A alt \in AltTables(g) :
            LET r == Rerun(alt)
            IN  \A h \in GroupNames \ {g} : GroupView(r, h) = GroupView(report, h)

\* a returned call in which the east group has a reported member, and a
\* second input that changes a west device and with it the west median
C13_Witness ==
    /\ OutReturned
    /\ \E f \in GroupMembers("east") : Reported(f)
    /\ \E alt \in AltTables("west") :
          GroupView(Rerun(alt), "west") # GroupView(report, "west")

-----------------------------------------------------------------------------
(* Properties of the topology lookup, stated on the log of its calls.      *)

DeviceNumbers == 1..40
Entries == {calls[k] : k \in 1..Len(calls)}
\* how often the identifier occurs in a list
Occurrences(lst, id) == Cardinality({k \in 1..Len(lst) : lst[k] = id})
ListSet(lst) == {lst[k] : k \in 1..Len(lst)}
Unfiltered(entry) == ~entry.masked.given

\* C14: every lookup without exclusions returns three lists of 12, 12 and
\* 16 identifiers in which each of the devices 01..40 occurs exactly once
\* over all three lists together (so the groups are non-empty, pairwise
\* disjoint and cover the field), nothing else occurs, and each list has the
\* same members as the list of that name held by ERC_Management in plot.py.
C14_GroupsPartitionField ==
    /\ ListSet(west_ids) = ListSet(ERC_Management.west_ids)
    /\ ListSet(south_ids) = ListSet(ERC_Management.south_ids)
    /\ ListSet(east_ids) = ListSet(ERC_Management.east_ids)
    /\ \A entry \in Entries :
        Unfiltered(entry) =>
            /\ Len(entry.west) = 12 /\ Len(entry.south) = 12 /\ Len(entry.east) = 16
            /\ \A x \in DeviceNumbers :
                  Occurrences(entry.west \o entry.south \o entry.east,
                              IdString(entry.before, x, entry.after)) = 1
            /\ ListSet(entry.west \o entry.south \o entry.east)
                  = {IdString(entry.before, x, entry.after) : x \in DeviceNumbers}
            /\ LET plot == generate_vault_id_strings(entry.before, entry.after)
               IN  /\ ListSet(entry.west) = ListSet(plot.west)
                   /\ ListSet(entry.south) = ListSet(plot.south)
                   /\ ListSet(entry.east) = ListSet(plot.east)

\* both lookup functions have been called without exclusions, the second
\* after a call that removed devices
C14_Witness ==
    /\ Len(calls) = 3
    /\ calls[1].masked.given
    /\ calls[2].fn = "get_ID_strings" /\ Unfiltered(calls[2])
    /\ calls[3].fn = "generate_ID_strings_per_shaft"

-----------------------------------------------------------------------------
(* Properties of the exclusion list, stated on the member lists            *)
(* west_in, south_in, east_in the detector worked with (report.ids).       *)

IdsOf(g) == CASE g = "west" -> report.ids.west
              [] g = "south" -> report.ids.south
              [] g = "east" -> report.ids.east
\* the member list of the group when nothing is excluded
FullList(g) == CASE g = "west" -> AllOf(west_ids)
                 [] g = "south" -> AllOf(south_ids)
                 [] g = "east" -> AllOf(east_ids)
NotExcluded(f) == f \notin Excluded
AllFull == ListSet(FullList("west")) \cup ListSet(FullList("south")) \cup ListSet(FullList("east"))

\* C15: whenever the detector is called with an exclusion list, the call
\* returns; each group's member list is its full list without the excluded
\* identifiers, the remaining members in their original order; an excluded
\* device is in no member list, has no misfit computed, is not reported, and
\* each group's median is the median over its remaining members only.
\* Identifiers that are in no group, or listed twice, change nothing else.
C15_ExclusionRemovesMembers ==
    (OutDone /\ masked_BHEs.given) =>
        /\ report.status = "ok"
        /\ \A g \in GroupNames :
            /\ IdsOf(g) = SelectSeq(FullList(g), NotExcluded)
            /\ \A t \in Timestamps :
                /\ Present(g, t) = {} => isnan(MedianOf(g)[t])
                /\ Present(g, t) # {} =>
                      IsNum(MedianOf(g)[t]) /\ IsMedian2(g, t, MedianOf(g)[t][1])
        /\ \A d \in Excluded :
            /\ \A g \in GroupNames : ~InList(d, IdsOf(g))
            /\ d \notin DOMAIN report.mean_misfit
            /\ ~Reported(d)

\* a call whose exclusion list names an unknown identifier and devices of
\* two groups; an excluded west device has a reading that differs from the
\* remaining ones, and a remaining west member is reported
C15_Witness ==
    /\ OutReturned
    /\ masked_BHEs.given
    /\ Excluded \ AllFull # {}
    /\ \E d \in Excluded \cap ListSet(FullList("east")) : IsNum(table[d][1])
    /\ \E d \in Excluded \cap ListSet(FullList("west")) :
          /\ IsNum(table[d][1])
          /\ \E f \in GroupMembers("west") :
                Reported(f) /\ ValueAt(f, 1) # ValueAt(d, 1)

\* the exclusion list has removed every member of the group
EmptyGroup(g) == GroupMembers(g) = {}
\* the outcome holds a median series for the group, of the table's length and
\* missing at every timestamp
SilentMedian(g) ==
    /\ Len(MedianOf(g)) = Rows(table)
    /\ \A t \in Timestamps : isnan(MedianOf(g)[t])

\* C16: whenever the detector is called with an exclusion list that removes
\* every member of a group, it does not return normally with a median series
\* for that group that is silently filled with missing values: the call
\* either fails or leaves that group out.
C16_EmptyGroupNotSilent ==
    OutDone =>
        \A g \in GroupNames :
            EmptyGroup(g) => ~(report.status = "ok" /\ SilentMedian(g))

SameArguments(a, b) ==
    /\ a.fn = b.fn /\ a.before = b.before /\ a.after = b.after /\ a.masked = b.masked
SameLists(a, b) ==
    /\ a.west = b.west /\ a.south = b.south /\ a.east = b.east

-----------------------------------------------------------------------------
(* Properties of the masking loop, stated on the shared table.             *)

\* the columns of a device after its own mask, computed from the table as
\* loaded, has been applied to them
MaskedFromInput(dev) ==
    LET mask == create_BHE_data_mask(pipeline.input[dev], StrId(dev), 30).mask
    IN  [T_in |-> BlankColumn(pipeline.input[dev].T_in, mask),
         T_out |-> BlankColumn(pipeline.input[dev].T_out, mask),
         V_dot |-> BlankColumn(pipeline.input[dev].V_dot, mask)]

\* C18: at every point of the masking loop, in whatever order the devices
\* are taken, the columns of a device that has been handled are its loaded
\* columns blanked by the mask computed from the loaded table, and the
\* columns of a device not yet handled are as loaded (computing a mask and
\* blanking another device changed nothing of them); so the final table is
\* the same for every order and equals the table obtained by computing all
\* masks first and applying them afterwards.
C18_MaskingOrderIndependent ==
    \A dev \in DOMAIN pipeline.table :
        /\ dev \in pipeline.done => pipeline.table[dev] = MaskedFromInput(dev)
        /\ dev \notin pipeline.done => pipeline.table[dev] = pipeline.input[dev]

\* all three devices have been handled; one was blanked wholly, one partly
\* and one not at all
C18_Witness ==
    /\ pipeline.done = PipelineDevices
    /\ \E a, b, c \in PipelineDevices :
        /\ \A k \in 1..Len(pipeline.table[a].T_in) : isnan(pipeline.table[a].T_in[k])
        /\ isnan(pipeline.table[b].T_out[Len(pipeline.table[b].T_out)])
        /\ IsNum(pipeline.table[b].T_out[1])
        /\ pipeline.table[c] = pipeline.input[c]

-----------------------------------------------------------------------------
(* Exact characterisation of the mask, on the vocabulary of the mask       *)
(* properties.                                                             *)

\* index i is a trigger when the flow is low there, or when it lies inside the
\* widened range of a run of more than 20 missing values
\* the trigger indices of the series
Triggers ==
    LET long == {r \in Runs : r[2] - r[1] > 20}
        steps == Steps
    IN  {i \in Idx : Low(i) \/ \E r \in long : r[1] <= i /\ i < Min(r[2] + steps, N)}

\* C19: a call for a device of the transit-time table returns a mask of
\* length N in which index j is True if and only if some index i with
\* max(0, j - nsteps) <= i <= j is a trigger: every trigger index opens its
\* own window of nsteps + 1 samples and nothing outside the windows is
\* masked.
C19_MaskIsUnionOfWindows ==
    (Done /\ Known) =>
        /\ Returned
        /\ Len(result.mask) = N
        /\ LET trigger == Triggers
               nsteps == Steps
           IN  \A j \in Idx :
                  Masked(j) <=> \E i \in Max(0, j - nsteps)..j : i \in trigger

\* a run of more than 20 missing values after an unmasked sample; the window
\* of the last index of its widened range ends inside the series and the
\* sample after that window is not masked
C19_Witness ==
    /\ Done /\ Known /\ Returned
    /\ \E r \in Runs :
        /\ r[2] - r[1] > 20
        /\ r[1] > 0 /\ ~Masked(r[1] - 1)
        /\ r[2] + 2 * Steps < N
        /\ Masked(r[2] + 2 * Steps - 1)
        /\ ~Masked(r[2] + 2 * Steps)

-----------------------------------------------------------------------------
(* The look-ahead on a gap *)

\* C21: when the only abnormal samples of the flow series are one run of
\* missing values [start, end) longer than 20 samples, the returned mask is
\* True exactly on [start, min(end + 2 * nsteps, N)) and False everywhere
\* else: the look-ahead is applied to the gap twice.
C21_GapLookAheadTwice ==
    (Done /\ Known) =>
        /\ Returned
        /\ \A r \in Runs :
             (/\ Runs = {r}
              /\ r[2] - r[1] > 20
              /\ \A i \in Idx : ~Low(i))
             => LET last == Min(r[2] + 2 * locals.nsteps, N)
                IN  /\ locals.nsteps = Steps
                    /\ \A j \in Idx : Masked(j) <=> (r[1] <= j /\ j < last)

\* a single long run after a normal sample whose doubled look-ahead ends
\* inside the series: the last sample of the second look-ahead is masked, the
\* next one is not
C21_Witness ==
    /\ Done /\ Known /\ Returned
    /\ \A i \in Idx : ~Low(i)
    /\ \E r \in Runs :
         /\ Runs = {r}
         /\ r[1] > 0
         /\ r[2] - r[1] > 20
         /\ r[2] + 2 * Steps < N
         /\ Steps > 0
         /\ Masked(r[2] + Steps)
         /\ Masked(r[2] + 2 * Steps - 1)
         /\ ~Masked(r[2] + 2 * Steps)

-----------------------------------------------------------------------------
(* The two copies of the mask builder *)

Compared == pc = "compared"
Returned2 == result2.status = "ok"

\* C22 (as claimed): for every device of the transit-time table, named by
\* string or by number, and every input, the copy in load2.py returns without
\* error and yields the same mask as load.create_BHE_data_mask.
C22_CopiesAgree ==
    (Compared /\ Known) =>
        /\ Returned
        /\ Returned2
        /\ result2.mask = result.mask

-----------------------------------------------------------------------------
(* The mask and the temperature columns *)

\* other inlet and outlet temperature series of the length of the state's
\* series: all zero, all missing, missing at every second sample, and the
\* state's own series swapped
OtherTemps ==
    LET zero == Const(Num(0), N)
        missing == Const(NaN, N)
        second == [k \in 1..N |-> IF k % 2 = 0 THEN NaN ELSE Num(250)]
    IN  {<<zero, missing>>, <<missing, second>>, <<second, zero>>,
         <<data.T_out, data.T_in>>}

\* the call repeated on the same flow series with other temperature series
WithTemps(t_in, t_out) ==
    create_BHE_data_mask([T_in |-> t_in, T_out |-> t_out, V_dot |-> data.V_dot],
                         BHE, timestep)

\* C23: the mask depends only on the device's flow series: the same flow
\* series with any other inlet and outlet temperature series of the same
\* length (missing values included) gives the same mask, and a missing
\* temperature sample neither opens a window nor extends one: every masked
\* index lies in the window of a flow trigger.
C23_MaskFromFlowOnly ==
    (Done /\ Returned) =>
        LET trigger == Triggers
        IN  /\ \A t \in OtherTemps : WithTemps(t[1], t[2]) = result
            /\ \A j \in Idx :
                 Masked(j) => \E i \in trigger : i <= j /\ j <= i + locals.nsteps
            /\ trigger = {} => AllFalse

\* the inlet and outlet series differ, a sample with missing inlet and one
\* with missing outlet temperature are left unmasked, and a later sample with
\* both temperatures is masked
C23_Witness ==
    /\ Done /\ Returned
    /\ data.T_in # data.T_out
    /\ \E i, j, k \in Idx :
         /\ isnan(data.T_in[i + 1]) /\ ~Masked(i)
         /\ isnan(data.T_out[j + 1]) /\ ~Masked(j)
         /\ i < k /\ j < k
         /\ ~isnan(data.T_in[k + 1]) /\ ~isnan(data.T_out[k + 1])
         /\ Masked(k)
    /\ WithTemps(Const(Num(0), N), Const(NaN, N)) = result

-----------------------------------------------------------------------------
(* The monthly loop *)

\* months since year 0 of a datetime or of a file
MonthNumber(x) == 12 * x[1] + x[2] - 1

\* the files of the calendar months that hold a timestamp of [start, end],
\* in chronological order
MonthsOfPeriod ==
    LET first == MonthNumber(loader.start)
        last == MonthNumber(loader.end)
    IN  [k \in 1..(last - first + 1) |->
            <<(first + k - 1) \div 12, ((first + k - 1) % 12) + 1>>]

\* C24 (as claimed): for start_date <= end_date the monthly loop ends having
\* read the file of every calendar month of [start_date, end_date], each
\* once and in chronological order, the month of end_date included when its
\* day of month is earlier than that of start_date.
C24_EveryMonthRead ==
    loader.pc = "done" => loader.files = MonthsOfPeriod

====
